---------------------------- MODULE Spec2Model ----------------------------
(***************************************************************************)
(* MXW01 cat printer: the synchronous CatPrinter of src/src/printer.rs     *)
(* driving a Transport, with the protocol codec of src/src/protocol.rs.    *)
(*                                                                         *)
(* Bytes are the integers 0..255, byte strings are sequences of bytes, an  *)
(* Option<T> is a sequence of length 0 (None) or 1 (Some), and a Result is *)
(* a record with a boolean field ok.                                       *)
(***************************************************************************)
EXTENDS Integers, Sequences, FiniteSets, TLC

(***************************************************************************)
(* Bounds of the model.                                                    *)
(***************************************************************************)
\* the callers that may try to use the one CatPrinter
MaxCallers == 2
\* operations started on a shared printer in one behaviour
MaxSessions == 2
\* notifications read in one completion wait that the call log records
MaxWaitReads == 2
\* largest image width and height offered to print_image
MaxWidth == 9
MaxHeight == 2
\* largest per-call chunk_size override
MaxChunk == 3
\* rows of the largest rasterized text buffer
MaxTextRows == 4
\* the clock value at construction is 0..MaxStart
MaxStart == 1
\* the two amounts of time (seconds) by which the clock is seen to advance
ShortTick == 30
LongTick == 35
\* largest timeout (seconds) a caller passes to get_status
MaxStatusTimeout == 1
MaxPayload == 2
MaxData == 7
MaxStatusLen == 14
MaxSide == 4
MaxAtkinsonSide == 3
MaxToned == 3

(***************************************************************************)
(* Program constants.                                                      *)
(***************************************************************************)
DefaultChunkSize == 180
TextWidth == 384
SizeAckTimeout == 2
CompletionTimeout == 60
CmdStatus == 161
CmdSize == 169
CmdComplete == 170
CmdEnd == 173

Byte == 0..255

\* bit i of the natural x
BitOf(x, i) == (x \div (2 ^ i)) % 2

\* bitwise exclusive or of two bytes (the ^ of u8)
bxor(a, b) ==
  LET x(i) == ((BitOf(a, i) + BitOf(b, i)) % 2) * (2 ^ i)
  IN  x(0) + x(1) + x(2) + x(3) + x(4) + x(5) + x(6) + x(7)

Min(a, b) == IF a < b THEN a ELSE b

\* Option<T>
None == << >>
Some(x) == << x >>

RECURSIVE Concat(_)
\* the concatenation of a sequence of sequences
Concat(ss) == IF ss = << >> THEN << >> ELSE Head(ss) \o Concat(Tail(ss))

(***************************************************************************)
(* protocol.rs                                                             *)
(***************************************************************************)
\* one turn of the inner loop of crc8: shift the 8-bit register left,
\* folding in the polynomial 0x07 when the top bit falls out
crc8_shift(crc) ==
  IF crc >= 128 THEN bxor((crc * 2) % 256, 7) ELSE (crc * 2) % 256

\* the eight shifts of one turn of the outer loop of crc8, for every value
\* the register can hold when they start
crc8_shifts ==
  [s0 \in Byte |->
     LET s1 == crc8_shift(s0)
         s2 == crc8_shift(s1)
         s3 == crc8_shift(s2)
         s4 == crc8_shift(s3)
         s5 == crc8_shift(s4)
         s6 == crc8_shift(s5)
         s7 == crc8_shift(s6)
     IN  crc8_shift(s7)]

\* one turn of the outer loop of crc8: crc ^= b, then eight shifts
crc8_byte(crc, b) == crc8_shifts[bxor(crc, b)]

crc8(data) ==
  LET \* the register after the first n bytes, from the initial value 0
      reg[n \in 0..Len(data)] ==
        IF n = 0 THEN 0 ELSE crc8_byte(reg[n - 1], data[n])
  IN  reg[Len(data)]

\* build_control_packet writing the length high byte first
build_control_packet_be(command_id, payload) ==
  LET len == Len(payload) % 65536
  IN  << 34, 33, command_id, 0, len \div 256, len % 256 >>
        \o payload \o << crc8(payload), 255 >>

\* build_control_packet with the checksum taken over header and payload
build_control_packet_crc_all(command_id, payload) ==
  LET len == Len(payload) % 65536
      head == << 34, 33, command_id, 0, len % 256, len \div 256 >>
  IN  head \o payload \o << crc8(head \o payload), 255 >>

build_control_packet(command_id, payload) ==
  LET len == Len(payload) % 65536
  IN  << 34, 33, command_id, 0, len % 256, len \div 256 >>
        \o payload \o << crc8(payload), 255 >>

\* parse_notification refusing a checksum byte that is not crc8 of the payload
parse_notification_verifying(data) ==
  IF Len(data) < 7 THEN [ok |-> FALSE, err |-> "packet too short"]
  ELSE IF data[1] # 34 \/ data[2] # 33 THEN [ok |-> FALSE, err |-> "bad preamble"]
  ELSE LET payload_len == data[6] * 256 + data[5]
       IN  IF Len(data) < 6 + payload_len
           THEN [ok |-> FALSE, err |-> "not enough bytes for claimed payload length"]
           ELSE IF /\ Len(data) > 6 + payload_len
                   /\ data[7 + payload_len] # crc8(SubSeq(data, 7, 6 + payload_len))
           THEN [ok |-> FALSE, err |-> "bad checksum"]
           ELSE [ok |-> TRUE,
                 command_id |-> data[3],
                 unknown |-> data[4],
                 payload |-> SubSeq(data, 7, 6 + payload_len),
                 crc |-> IF Len(data) > 6 + payload_len
                         THEN Some(data[7 + payload_len]) ELSE None]

\* parse_notification testing the claimed length before the preamble
parse_notification_length_first(data) ==
  IF Len(data) < 7 THEN [ok |-> FALSE, err |-> "packet too short"]
  ELSE LET payload_len == data[6] * 256 + data[5]
       IN  IF Len(data) < 6 + payload_len
           THEN [ok |-> FALSE, err |-> "not enough bytes for claimed payload length"]
           ELSE IF data[1] # 34 \/ data[2] # 33
           THEN [ok |-> FALSE, err |-> "bad preamble"]
           ELSE [ok |-> TRUE,
                 command_id |-> data[3],
                 unknown |-> data[4],
                 payload |-> SubSeq(data, 7, 6 + payload_len),
                 crc |-> IF Len(data) > 6 + payload_len
                         THEN Some(data[7 + payload_len]) ELSE None]

parse_notification(data) ==
  IF Len(data) < 7 THEN [ok |-> FALSE, err |-> "packet too short"]
  ELSE IF data[1] # 34 \/ data[2] # 33 THEN [ok |-> FALSE, err |-> "bad preamble"]
  ELSE LET payload_len == data[6] * 256 + data[5]
       IN  IF Len(data) < 6 + payload_len
           THEN [ok |-> FALSE, err |-> "not enough bytes for claimed payload length"]
           ELSE [ok |-> TRUE,
                 command_id |-> data[3],
                 unknown |-> data[4],
                 payload |-> SubSeq(data, 7, 6 + payload_len),
                 crc |-> IF Len(data) > 6 + payload_len
                         THEN Some(data[7 + payload_len]) ELSE None]

\* usize::MAX of the model's machine word
UsizeMax == (2 ^ 30 - 1) + 2 ^ 30

RECURSIVE group_byte_msb_first(_, _, _, _)
\* group_byte putting the first pixel of the group at bit 7
group_byte_msb_first(pixels, px_idx, end, bit) ==
  IF px_idx >= end THEN 0
  ELSE (IF pixels[px_idx + 1] = 0 THEN 2 ^ (7 - bit) ELSE 0)
         + group_byte_msb_first(pixels, px_idx + 1, end, bit + 1)

RECURSIVE group_byte(_, _, _, _)
\* the inner loop of pack_1bpp_pixels: the bits of pixels px_idx .. end-1
\* (0-based indices), the first of them at bit number bit
group_byte(pixels, px_idx, end, bit) ==
  IF px_idx >= end THEN 0
  ELSE (IF pixels[px_idx + 1] = 0 THEN 2 ^ bit ELSE 0)
         + group_byte(pixels, px_idx + 1, end, bit + 1)

\* pack_1bpp_pixels refusing a buffer that is not exactly width*height long
pack_1bpp_pixels_exact_len(pixels, width, height) ==
  IF width = 0 \/ height = 0 THEN [ok |-> FALSE, err |-> "width/height must be > 0"]
  ELSE IF width > UsizeMax \div height THEN [ok |-> FALSE, err |-> "width*height overflow"]
  ELSE IF Len(pixels) # width * height THEN [ok |-> FALSE, err |-> "not enough pixels"]
  ELSE LET bytes_per_row == (width + 7) \div 8
           byte_at(k) ==
             LET row == k \div bytes_per_row
                 group == k % bytes_per_row
                 row_off == row * width
                 base == row_off + group * 8
             IN  group_byte(pixels, base, Min(base + 8, row_off + width), 0)
       IN  [ok |-> TRUE,
            val |-> [k \in 1..(bytes_per_row * height) |-> byte_at(k - 1)]]

pack_1bpp_pixels(pixels, width, height) ==
  IF width = 0 \/ height = 0 THEN [ok |-> FALSE, err |-> "width/height must be > 0"]
  ELSE IF width > UsizeMax \div height THEN [ok |-> FALSE, err |-> "width*height overflow"]
  ELSE IF Len(pixels) < width * height THEN [ok |-> FALSE, err |-> "not enough pixels"]
  ELSE LET bytes_per_row == (width + 7) \div 8
           byte_at(k) ==
             LET row == k \div bytes_per_row
                 group == k % bytes_per_row
                 row_off == row * width
                 base == row_off + group * 8
             IN  group_byte(pixels, base, Min(base + 8, row_off + width), 0)
       IN  [ok |-> TRUE,
            val |-> [k \in 1..(bytes_per_row * height) |-> byte_at(k - 1)]]

\* parse_printer_status reading battery and temperature only when the
\* overall flag is 0
parse_printer_status_no_battery_on_error(payload) ==
  LET long == Len(payload) >= 13
      state == IF ~long THEN << "Unknown" >>
               ELSE IF payload[13] = 0
                    THEN (IF payload[7] = 0 THEN << "Standby" >>
                          ELSE IF payload[7] = 1 THEN << "Printing" >>
                          ELSE << "Unknown" >>)
               ELSE IF Len(payload) > 13 THEN << "Error", payload[14] >>
               ELSE << "Unknown" >>
      read == long /\ payload[13] = 0
  IN  [battery_percent |-> IF read THEN Some(payload[10]) ELSE None,
       temperature |-> IF read THEN Some(payload[11]) ELSE None,
       state |-> state]

parse_printer_status(payload) ==
  LET long == Len(payload) >= 13
      state == IF ~long THEN << "Unknown" >>
               ELSE IF payload[13] = 0
                    THEN (IF payload[7] = 0 THEN << "Standby" >>
                          ELSE IF payload[7] = 1 THEN << "Printing" >>
                          ELSE << "Unknown" >>)
               ELSE IF Len(payload) > 13 THEN << "Error", payload[14] >>
               ELSE << "Unknown" >>
  IN  [battery_percent |-> IF long THEN Some(payload[10]) ELSE None,
       temperature |-> IF long THEN Some(payload[11]) ELSE None,
       state |-> state]

\* chunk_data returning no chunk at all for chunk size 0
chunk_data_none_for_zero(data, chunk_size) ==
  IF chunk_size = 0 THEN << >>
  ELSE [i \in 1..((Len(data) + chunk_size - 1) \div chunk_size) |->
          SubSeq(data, (i - 1) * chunk_size + 1, Min(i * chunk_size, Len(data)))]

\* chunk_data keeping only the whole chunks (chunks_exact for chunks)
chunk_data_exact(data, chunk_size) ==
  IF chunk_size = 0 THEN << data >>
  ELSE [i \in 1..(Len(data) \div chunk_size) |->
          SubSeq(data, (i - 1) * chunk_size + 1, i * chunk_size)]

chunk_data(data, chunk_size) ==
  IF chunk_size = 0 THEN << data >>
  ELSE [i \in 1..((Len(data) + chunk_size - 1) \div chunk_size) |->
          SubSeq(data, (i - 1) * chunk_size + 1, Min(i * chunk_size, Len(data)))]

rotate_mirror_pixels(pixels, width, height) ==
  \* vec![0u8; len], then every (row, col) of the height x width grid is
  \* written to its mirrored index; dst -> src is the same map
  [d \in 1..Len(pixels) |->
     IF d <= width * height
     THEN LET row == (d - 1) \div width
              col == (d - 1) % width
          IN  pixels[(height - 1 - row) * width + (width - 1 - col) + 1]
     ELSE 0]

(***************************************************************************)
(* What the environment supplies: callers, jobs, and a Transport whose     *)
(* calls fail or succeed, and whose notifications are arbitrary bytes.     *)
(***************************************************************************)
Callers == 1..MaxCallers

\* a notification as the printer frames it, with trailing checksum byte sum
Notif(cmd, payload, sum) ==
  << 34, 33, cmd, 0, Len(payload) % 256, Len(payload) \div 256 >>
    \o payload \o << sum >>

\* status payloads: 13 bytes, printing; 14 bytes, error 9
StatusPayloads ==
  { << 0, 0, 0, 0, 0, 0, 1, 0, 0, 77, 30, 0, 0 >>,
    << 0, 0, 0, 0, 0, 0, 0, 0, 0, 200, 30, 0, 1, 9 >> }

Replies ==
  { << 34, 33, CmdSize >>,                    \* too short
    << 34, 33, CmdComplete, 0, 2, 0, 0 >>,    \* payload cut short
    << 0, 33, CmdSize, 0, 0, 0, 0 >>,         \* bad preamble
    Notif(CmdSize, << 0 >>, crc8(<< 0 >>)),   \* size accepted
    << 34, 33, CmdSize, 0, 0, 0, 0 >>,        \* size reply with no payload
    Notif(CmdSize, << 1 >>, crc8(<< 1 >>)),   \* size refused
    << 34, 33, CmdComplete, 0, 1, 0, 1 >> }   \* print complete, no checksum
  \cup { Notif(CmdStatus, p, 0) : p \in StatusPayloads }  \* status, bad checksum

\* the error strings of the Transport
TransportErrors == { "transport failure", "notification timeout" }

\* Result<(), String> of write_control and write_data
WriteResults ==
  { [ok |-> TRUE, err |-> ""] } \cup { [ok |-> FALSE, err |-> e] : e \in TransportErrors }

\* Result<Vec<u8>, String> of read_notification
ReadResults ==
  { [ok |-> TRUE, data |-> d, err |-> ""] : d \in Replies }
    \cup { [ok |-> FALSE, data |-> << >>, err |-> e] : e \in TransportErrors }

\* n pixels, black (0) where the index is a multiple of 3, else white
Pixels(n) == [i \in 1..n |-> IF i % 3 = 0 THEN 0 ELSE 255]

\* the arguments of print_image
ImageJobs ==
  { [pixels |-> Pixels(w * h), width |-> w, height |-> h, mode |-> 0, chunk_size |-> None,
     timeout |-> 0] :
      w \in { 0, 8, MaxWidth }, h \in { 0, 1, MaxHeight } }
  \cup
  { [pixels |-> Pixels(MaxWidth * MaxHeight), width |-> MaxWidth, height |-> MaxHeight,
     mode |-> 1, chunk_size |-> Some(n), timeout |-> 0] : n \in 0..MaxChunk }
  \cup
  { [pixels |-> Pixels(MaxWidth * MaxHeight - 1), width |-> MaxWidth, height |-> MaxHeight,
     mode |-> 0, chunk_size |-> None, timeout |-> 0] }
  \cup
  { [pixels |-> << >>, width |-> 65536, height |-> 32768,    \* width * height overflows
     mode |-> 0, chunk_size |-> None, timeout |-> 0] }

\* the jobs of the runs in which callers share the printer
SharedJobs == { j \in ImageJobs : j.width = 8 /\ j.height <= 1 }

\* what render_text_to_pixels returns for the texts tried: whole rows of
\* TextWidth pixels
TextBuffers == { Pixels(TextWidth * r) : r \in { 1, MaxTextRows } }

\* values the caller gives the pub field chunk_size
ChunkSizes == { DefaultChunkSize, 0 }

StatusTimeouts == 0..MaxStatusTimeout

TickSteps == { ShortTick, LongTick }

(***************************************************************************)
(* State.                                                                  *)
(***************************************************************************)
VARIABLES
  active,      \* the callers inside a &mut self method of the printer
  sessions,    \* operations started so far
  chunk_size,  \* CatPrinter.chunk_size
  op,          \* the method running or last run
  args,        \* its arguments
  pc,          \* where it is
  packed,      \* local packed
  chunks,      \* local chunks
  sent,        \* chunks written so far by the for loop
  deadline,    \* local deadline
  now,         \* the monotonic clock, std::time::Instant::now()
  log,         \* the Transport calls of this operation, in order
  outcome      \* what the method returned

vars == << active, sessions, chunk_size, op, args, pc, packed, chunks, sent,
           deadline, now, log, outcome >>

NoArgs == [pixels |-> << >>, width |-> 0, height |-> 0, mode |-> 0,
           chunk_size |-> None, timeout |-> 0]

NoOutcome == [ret |-> "none", err |-> "", at |-> "", status |-> None]
Ok(at) == [ret |-> "ok", err |-> "", at |-> at, status |-> None]
OkStatus(st) == [ret |-> "ok", err |-> "", at |-> "status", status |-> Some(st)]
Err(e, at) == [ret |-> "err", err |-> e, at |-> at, status |-> None]

\* one Transport call, made when the clock shows `at`, and its result
WriteControl(data, r) ==
  [call |-> "write_control", data |-> data, timeout |-> 0, at |-> now,
   ok |-> r.ok, err |-> r.err, reply |-> << >>]
WriteData(data, r) ==
  [call |-> "write_data", data |-> data, timeout |-> 0, at |-> now,
   ok |-> r.ok, err |-> r.err, reply |-> << >>]
ReadNotification(timeout, r) ==
  [call |-> "read_notification", data |-> << >>, timeout |-> timeout, at |-> now,
   ok |-> r.ok, err |-> r.err, reply |-> r.data]

Init ==
  /\ active = {}
  /\ sessions = 0
  /\ chunk_size = DefaultChunkSize
  /\ op = "none"
  /\ args = NoArgs
  /\ pc = "idle"
  /\ packed = << >>
  /\ chunks = << >>
  /\ sent = 0
  /\ deadline = 0
  /\ now \in 0..MaxStart
  /\ log = << >>
  /\ outcome = NoOutcome

\* the method returns `out` to its caller
Return(out) ==
  /\ pc' = "done"
  /\ active' = {}
  /\ outcome' = out

\* CanBorrow for a printer handed out without exclusive access
CanBorrowShared == TRUE

\* &mut self: a method can be entered only while no other borrow of the
\* printer is live, that is while no method is running
CanBorrow == active = {}

\* the method goes on to `next`, its caller c still inside it
Proceed(c, next) ==
  /\ pc' = next
  /\ active' = active \cup {c}
  /\ outcome' = NoOutcome

\* method entry: the frame's locals are fresh
Enter(c, name, a) ==
  /\ CanBorrow
  /\ sessions' = sessions + 1
  /\ op' = name
  /\ args' = a
  /\ log' = << >>
  /\ chunks' = << >>
  /\ sent' = 0
  /\ deadline' = 0
  /\ UNCHANGED << chunk_size, now >>

\* the caller assigns the pub field chunk_size between calls
Configure(n) ==
  /\ CanBorrow
  /\ sessions = 0
  /\ chunk_size # n
  /\ chunk_size' = n
  /\ UNCHANGED << active, sessions, op, args, pc, packed, chunks, sent, deadline,
                  now, log, outcome >>

(***************************************************************************)
(* printer.rs: print_image and print_text                                  *)
(***************************************************************************)
\* the 0xA9 packet: line_count as u16 little-endian, 0x30, mode
SizePacket(height, mode) ==
  LET line_count == height % 65536
  IN  build_control_packet(CmdSize, << line_count % 256, line_count \div 256, 48, mode >>)

\* the 0xAD packet
EndPacket == build_control_packet(CmdEnd, << 0 >>)

\* Rejects without the test of the first payload byte
RejectsCommandOnly(parsed) == parsed.command_id # CmdSize

\* parsed.command_id != 0xA9 || parsed.payload.first() == Some(&0x01)
Rejects(parsed) ==
  \/ parsed.command_id # CmdSize
  \/ (Len(parsed.payload) > 0 /\ parsed.payload[1] = 1)

\* chunk_size.unwrap_or(self.chunk_size); print_text has no override
ChunkSizeUsed == IF args.chunk_size # None THEN args.chunk_size[1] ELSE chunk_size

\* Remaining with the deadline taken afresh at every turn of the loop
RemainingRestarted(dl, t) == CompletionTimeout

\* deadline.checked_duration_since(now).unwrap_or(0)
Remaining(dl, t) == IF dl > t THEN dl - t ELSE 0

\* IsComplete comparing with the wrong command id
IsCompleteOnSize(notif) == notif.command_id = CmdSize

\* notif.command_id == 0xAA
IsComplete(notif) == notif.command_id = CmdComplete

\* reads of the completion wait that the log holds
WaitReads == Len(log) - (3 + Len(chunks))

\* Pack going on to announce the size whatever pack_1bpp_pixels returned
PackUnchecked(c, pixels, width, height) ==
  LET p == pack_1bpp_pixels(pixels, width, height)
  IN  packed' = (IF p.ok THEN p.val ELSE << >>) /\ Proceed(c, "announce")

\* pack, and either return its error or go on to announce the size
Pack(c, pixels, width, height) ==
  LET p == pack_1bpp_pixels(pixels, width, height)
  IN  IF p.ok
      THEN packed' = p.val /\ Proceed(c, "announce")
      ELSE packed' = << >> /\ Return(Err(p.err, "pack"))

PrintImage(c, job) ==
  /\ Enter(c, "print_image", job)
  /\ Pack(c, job.pixels, job.width, job.height)

\* PrintText packing the buffer as rendered, without rotate_mirror_pixels
PrintTextUnrotated(c, pixels) ==
  LET width == TextWidth
      height == Len(pixels) \div width
  IN  /\ Enter(c, "print_text",
               [pixels |-> pixels, width |-> width, height |-> height, mode |-> 0,
                chunk_size |-> None, timeout |-> 0])
      /\ Pack(c, pixels, width, height)

PrintText(c, pixels) ==
  LET width == TextWidth
      height == Len(pixels) \div width
  IN  /\ Enter(c, "print_text",
               [pixels |-> pixels, width |-> width, height |-> height, mode |-> 0,
                chunk_size |-> None, timeout |-> 0])
      /\ Pack(c, rotate_mirror_pixels(pixels, width, height), width, height)

WriteA9(r) ==
  /\ pc = "announce"
  /\ log' = Append(log, WriteControl(SizePacket(args.height, args.mode), r))
  /\ IF r.ok
     THEN pc' = "await_ack" /\ UNCHANGED << active, outcome >>
     ELSE Return(Err(r.err, "write_control"))
  /\ UNCHANGED << sessions, chunk_size, op, args, packed, chunks, sent, deadline, now >>

ReadSizeAck(r) ==
  /\ pc = "await_ack"
  /\ log' = Append(log, ReadNotification(SizeAckTimeout, r))
  /\ LET parsed == parse_notification(r.data)
     IN  IF ~r.ok THEN Return(Err(r.err, "read_notification")) /\ UNCHANGED chunks
         ELSE IF ~parsed.ok THEN Return(Err(parsed.err, "parse_ack")) /\ UNCHANGED chunks
         ELSE IF Rejects(parsed)
              THEN Return(Err("printer rejected print request", "rejected"))
                   /\ UNCHANGED chunks
         ELSE /\ chunks' = chunk_data(packed, ChunkSizeUsed)
              /\ pc' = "stream"
              /\ UNCHANGED << active, outcome >>
  /\ UNCHANGED << sessions, chunk_size, op, args, packed, sent, deadline, now >>

\* WriteChunk without the ? on write_data: a failed write is passed over
WriteChunkCarryingOn(r) ==
  /\ pc = "stream"
  /\ sent < Len(chunks)
  /\ log' = Append(log, WriteData(chunks[sent + 1], r))
  /\ sent' = sent + 1
  /\ UNCHANGED << pc, active, outcome >>
  /\ UNCHANGED << sessions, chunk_size, op, args, packed, chunks, deadline, now >>

WriteChunk(r) ==
  /\ pc = "stream"
  /\ sent < Len(chunks)
  /\ log' = Append(log, WriteData(chunks[sent + 1], r))
  /\ IF r.ok
     THEN sent' = sent + 1 /\ UNCHANGED << pc, active, outcome >>
     ELSE Return(Err(r.err, "write_data")) /\ UNCHANGED sent
  /\ UNCHANGED << sessions, chunk_size, op, args, packed, chunks, deadline, now >>

\* WriteAD not waiting for the chunk loop to finish
WriteADEarly(r) ==
  /\ pc = "stream"
  /\ log' = Append(log, WriteControl(EndPacket, r))
  /\ IF r.ok
     THEN /\ deadline' = now + CompletionTimeout
          /\ pc' = "wait"
          /\ UNCHANGED << active, outcome >>
     ELSE Return(Err(r.err, "write_control")) /\ UNCHANGED deadline
  /\ UNCHANGED << sessions, chunk_size, op, args, packed, chunks, sent, now >>

WriteAD(r) ==
  /\ pc = "stream"
  /\ sent = Len(chunks)
  /\ log' = Append(log, WriteControl(EndPacket, r))
  /\ IF r.ok
     THEN /\ deadline' = now + CompletionTimeout
          /\ pc' = "wait"
          /\ UNCHANGED << active, outcome >>
     ELSE Return(Err(r.err, "write_control")) /\ UNCHANGED deadline
  /\ UNCHANGED << sessions, chunk_size, op, args, packed, chunks, sent, now >>

\* top of the loop with no time left
TimeOut ==
  /\ pc = "wait"
  /\ Remaining(deadline, now) = 0
  /\ Return(Err("timed out waiting for print complete", "timeout"))
  /\ UNCHANGED << sessions, chunk_size, op, args, packed, chunks, sent, deadline,
                  now, log >>

\* ReadCompletion refusing any notification other than 0xAA
ReadCompletionStrict(r, keep) ==
  /\ pc = "wait"
  /\ Remaining(deadline, now) > 0
  /\ keep => WaitReads < MaxWaitReads
  /\ log' = IF keep THEN Append(log, ReadNotification(Remaining(deadline, now), r))
                    ELSE log
  /\ LET notif == parse_notification(r.data)
     IN  IF ~r.ok THEN Return(Err(r.err, "read_notification"))
         ELSE IF ~notif.ok THEN Return(Err(notif.err, "parse_completion"))
         ELSE IF IsComplete(notif) THEN Return(Ok("complete"))
         ELSE Return(Err("unexpected notification", "unexpected"))
  /\ UNCHANGED << sessions, chunk_size, op, args, packed, chunks, sent, deadline, now >>

\* ReadCompletion with the deadline moved on by every discarded notification
ReadCompletionExtending(r, keep) ==
  /\ pc = "wait"
  /\ Remaining(deadline, now) > 0
  /\ keep => WaitReads < MaxWaitReads
  /\ log' = IF keep THEN Append(log, ReadNotification(Remaining(deadline, now), r))
                    ELSE log
  /\ LET notif == parse_notification(r.data)
     IN  IF ~r.ok THEN Return(Err(r.err, "read_notification")) /\ UNCHANGED deadline
         ELSE IF ~notif.ok
              THEN Return(Err(notif.err, "parse_completion")) /\ UNCHANGED deadline
         ELSE IF IsComplete(notif) THEN Return(Ok("complete")) /\ UNCHANGED deadline
         ELSE /\ deadline' = now + CompletionTimeout
              /\ UNCHANGED << pc, active, outcome >>
  /\ UNCHANGED << sessions, chunk_size, op, args, packed, chunks, sent, now >>

\* one turn of the loop with time left; keep says whether the log records it
ReadCompletion(r, keep) ==
  /\ pc = "wait"
  /\ Remaining(deadline, now) > 0
  /\ keep => WaitReads < MaxWaitReads
  /\ log' = IF keep THEN Append(log, ReadNotification(Remaining(deadline, now), r))
                    ELSE log
  /\ LET notif == parse_notification(r.data)
     IN  IF ~r.ok THEN Return(Err(r.err, "read_notification"))
         ELSE IF ~notif.ok THEN Return(Err(notif.err, "parse_completion"))
         ELSE IF IsComplete(notif) THEN Return(Ok("complete"))
         ELSE UNCHANGED << pc, active, outcome >>
  /\ UNCHANGED << sessions, chunk_size, op, args, packed, chunks, sent, deadline, now >>

(***************************************************************************)
(* printer.rs: get_status                                                  *)
(***************************************************************************)
StatusRequest == build_control_packet(CmdStatus, << 0 >>)

GetStatus(c, timeout) ==
  /\ Enter(c, "get_status", [NoArgs EXCEPT !.timeout = timeout])
  /\ Proceed(c, "status_request")
  /\ packed' = << >>

WriteStatusRequest(r) ==
  /\ pc = "status_request"
  /\ log' = Append(log, WriteControl(StatusRequest, r))
  /\ IF r.ok
     THEN pc' = "status_reply" /\ UNCHANGED << active, outcome >>
     ELSE Return(Err(r.err, "write_control"))
  /\ UNCHANGED << sessions, chunk_size, op, args, packed, chunks, sent, deadline, now >>

\* ReadStatus reading again after a failed read
ReadStatusRetrying(r) ==
  /\ pc = "status_reply"
  /\ log' = Append(log, ReadNotification(args.timeout, r))
  /\ LET notif == parse_notification(r.data)
     IN  IF ~r.ok THEN UNCHANGED << pc, active, outcome >>
         ELSE IF ~notif.ok THEN Return(Err(notif.err, "parse_status"))
         ELSE Return(OkStatus(parse_printer_status(notif.payload)))
  /\ UNCHANGED << sessions, chunk_size, op, args, packed, chunks, sent, deadline, now >>

ReadStatus(r) ==
  /\ pc = "status_reply"
  /\ log' = Append(log, ReadNotification(args.timeout, r))
  /\ LET notif == parse_notification(r.data)
     IN  IF ~r.ok THEN Return(Err(r.err, "read_notification"))
         ELSE IF ~notif.ok THEN Return(Err(notif.err, "parse_status"))
         ELSE Return(OkStatus(parse_printer_status(notif.payload)))
  /\ UNCHANGED << sessions, chunk_size, op, args, packed, chunks, sent, deadline, now >>

(***************************************************************************)
(* The clock.  The code reads it only in the completion wait, so that is   *)
(* where its advance is modelled.                                          *)
(***************************************************************************)
Tick(d) ==
  /\ pc = "wait"
  /\ now < deadline
  /\ now' = now + d
  /\ UNCHANGED << active, sessions, chunk_size, op, args, pc, packed, chunks, sent,
                  deadline, log, outcome >>

\* the steps of the method that is running
Run(keep) ==
  \/ \E r \in WriteResults : WriteA9(r)
  \/ \E r \in ReadResults : ReadSizeAck(r)
  \/ \E r \in WriteResults : WriteChunk(r)
  \/ \E r \in WriteResults : WriteAD(r)
  \/ TimeOut
  \/ \E r \in ReadResults : ReadCompletion(r, keep)
  \/ \E r \in WriteResults : WriteStatusRequest(r)
  \/ \E r \in ReadResults : ReadStatus(r)
  \/ \E d \in TickSteps : Tick(d)

\* one caller, one operation on a printer configured either way
Next ==
  \/ \E n \in ChunkSizes : Configure(n)
  \/ /\ sessions < 1
     /\ \/ \E job \in ImageJobs : PrintImage(1, job)
        \/ \E pixels \in TextBuffers : PrintText(1, pixels)
        \/ \E t \in StatusTimeouts : GetStatus(1, t)
  \/ Run(TRUE)

Spec == Init /\ [][Next]_vars

\* a job of 65536 rows of one pixel, streamed in one chunk
TallJob ==
  [pixels |-> Pixels(65536), width |-> 1, height |-> 65536, mode |-> 0,
   chunk_size |-> Some(65536), timeout |-> 0]

\* the tall job, and the jobs of full width
TallJobs == { TallJob } \cup { j \in ImageJobs : j.width = MaxWidth }

\* a transport that answers in order or times out
TallReads ==
  { r \in ReadResults :
      IF r.ok
      THEN r.data \in { Notif(CmdSize, << 0 >>, crc8(<< 0 >>)),
                        << 34, 33, CmdComplete, 0, 1, 0, 1 >> }
      ELSE r.err = "notification timeout" }

\* one print_image session, tall jobs included
NextTall ==
  \/ /\ sessions < 1
     /\ \E job \in TallJobs : PrintImage(1, job)
  \/ \E r \in WriteResults : WriteA9(r)
  \/ \E r \in TallReads : ReadSizeAck(r)
  \/ \E r \in WriteResults : WriteChunk(r)
  \/ \E r \in WriteResults : WriteAD(r)
  \/ TimeOut
  \/ \E r \in TallReads : ReadCompletion(r, TRUE)
  \/ \E d \in TickSteps : Tick(d)

SpecTall == Init /\ [][NextTall]_vars

\* the steps of a print session on a transport returning one of `reads`
PrintSteps(reads) ==
  \/ \E r \in WriteResults : WriteA9(r)
  \/ \E r \in reads : ReadSizeAck(r)
  \/ \E r \in WriteResults : WriteChunk(r)
  \/ \E r \in WriteResults : WriteAD(r)
  \/ TimeOut
  \/ \E r \in reads : ReadCompletion(r, TRUE)
  \/ \E d \in TickSteps : Tick(d)

\* what a print_text session left behind: its Transport calls with their
\* results, its outcome, and the clock at its first statement and at its
\* return
Session ==
  [log |-> log, outcome |-> outcome,
   began |-> IF log = << >> THEN now ELSE log[1].at, ended |-> now]

\* after print_text(P) has returned, the caller calls
\* print_image(rotate_mirror_pixels(P, 384, height), 384, height, 0x00, None)
PrintImageTwin ==
  /\ op = "print_text"
  /\ pc = "done"
  /\ PrintImage(1, [pixels |-> rotate_mirror_pixels(args.pixels, TextWidth, args.height),
                    width |-> TextWidth, height |-> args.height, mode |-> 0,
                    chunk_size |-> None, timeout |-> 0, first |-> Session])

\* the transport behaves in the second session as it did in the first:
\* each call returns what the call at the same place returned then, as
\* long after the session began, and no more time passes between calls
SameTransport ==
  LET f == args.first
      next == Len(log) + 1
  IN  IF log' # log
      THEN /\ next <= Len(f.log)
           /\ log'[next].ok = f.log[next].ok
           /\ log'[next].err = f.log[next].err
           /\ log'[next].reply = f.log[next].reply
           /\ log'[next].at - f.ended = f.log[next].at - f.began
      ELSE now' - f.ended <= (IF next <= Len(f.log) THEN f.log[next].at ELSE f.ended)
                               - f.began

\* what the transport returns in the paired sessions: the size accepted or
\* refused, print complete, a notification too short to parse, or an error
TwinReads ==
  { r \in ReadResults :
      r.ok => r.data \in { Notif(CmdSize, << 0 >>, crc8(<< 0 >>)),
                           Notif(CmdSize, << 1 >>, crc8(<< 1 >>)),
                           << 34, 33, CmdComplete, 0, 1, 0, 1 >>,
                           << 34, 33, CmdSize >> } }

\* print_text, then print_image of the same bitmap on a transport that
\* behaves the same
NextTwin ==
  \/ \E n \in ChunkSizes : Configure(n)
  \/ /\ sessions < 1
     /\ \E pixels \in TextBuffers : PrintText(1, pixels)
  \/ /\ sessions = 1
     /\ PrintSteps(TwinReads)
  \/ PrintImageTwin
  \/ /\ sessions = 2
     /\ PrintSteps(TwinReads)
     /\ SameTransport

SpecTwin == Init /\ [][NextTwin]_vars

\* several callers, one operation after another
NextShared ==
  \/ /\ sessions < MaxSessions
     /\ \/ \E c \in Callers, job \in SharedJobs : PrintImage(c, job)
        \/ \E c \in Callers : GetStatus(c, MaxStatusTimeout)
  \/ Run(TRUE)

SpecShared == Init /\ [][NextShared]_vars

\* one operation whose completion wait may read without end: the log does
\* not record those reads.  Every Transport call returns, so the running
\* method keeps taking steps, and the clock keeps advancing.
NextLive ==
  \/ \E n \in ChunkSizes : Configure(n)
  \/ /\ sessions < 1
     /\ \/ \E job \in ImageJobs : PrintImage(1, job)
        \/ \E pixels \in TextBuffers : PrintText(1, pixels)
        \/ \E t \in StatusTimeouts : GetStatus(1, t)
  \/ Run(FALSE)

SpecLive ==
  /\ Init
  /\ [][NextLive]_vars
  /\ WF_vars(Run(FALSE))
  /\ WF_vars(\E d \in TickSteps : Tick(d))

(***************************************************************************)
(* Properties.                                                             *)
(***************************************************************************)
IsPrint == op \in { "print_image", "print_text" }

\* the last Transport call made
LastCall == log[Len(log)]

\* where the 0xAD write stands in the log of a print session
AdIndex == 3 + Len(chunks)

\* the session wrote 0xAD and went on to wait for completion
Waited ==
  /\ Len(log) >= AdIndex
  /\ log[AdIndex].call = "write_control"
  /\ log[AdIndex].ok

\* the entry is a read that returned a notification which parses
Parsed(e) ==
  /\ e.call = "read_notification"
  /\ e.ok
  /\ parse_notification(e.reply).ok

\* the entry is a read that returned a well-formed 0xAA notification
CompleteRead(e) == Parsed(e) /\ parse_notification(e.reply).command_id = 170

\* the reply does not parse, or is not an 0xA9, or starts 0x01
BadSizeReply(raw) ==
  LET p == parse_notification(raw)
  IN  \/ ~p.ok
      \/ p.command_id # 169
      \/ (Len(p.payload) >= 1 /\ p.payload[1] = 1)

\* C1: in a print session, a size reply that fails to parse, or whose
\* command id is not 0xA9, or whose first payload byte is 0x01, ends the
\* session with an error, and that read is the session's last Transport call.
C1_BadSizeReplyEndsSession ==
  (IsPrint /\ Len(log) >= 2 /\ log[2].ok /\ BadSizeReply(log[2].reply))
    => /\ Len(log) = 2
       /\ pc = "done"
       /\ active = {}
       /\ outcome.ret = "err"
       /\ outcome.at \in { "parse_ack", "rejected" }

C1_Witness ==
  /\ IsPrint
  /\ pc = "done"
  /\ Len(log) = 2
  /\ log[2].reply = << 34, 33, 169, 0, 1, 0, 1, 7 >>
  /\ outcome.err = "printer rejected print request"

\* C2: in a print session a Transport call that returns an error is the
\* session's last Transport call (no retry, nothing after it), and the
\* session has ended with that call's error.
C2_TransportErrorEndsSession ==
  IsPrint =>
    \A i \in 1..Len(log) :
      ~log[i].ok =>
        /\ i = Len(log)
        /\ pc = "done"
        /\ active = {}
        /\ outcome.ret = "err"
        /\ outcome.err = log[i].err
        /\ outcome.at = log[i].call

C2_Witness ==
  /\ IsPrint
  /\ pc = "done"
  /\ Len(log) >= 4
  /\ log[3].call = "write_data" /\ log[3].ok
  /\ LastCall.call = "write_data" /\ ~LastCall.ok
  /\ outcome.err = "notification timeout"

C4_SingleDeadline ==
  (IsPrint /\ Waited) =>
    /\ deadline = log[AdIndex].at + 60
    /\ \A i \in (AdIndex + 1)..Len(log) :
         /\ log[i].call = "read_notification"
         /\ log[i].timeout > 0
         /\ log[i].timeout <= deadline - log[i].at
         /\ log[i].at < deadline
         /\ (i > AdIndex + 1) => log[i].timeout <= log[i - 1].timeout

C4_Witness ==
  /\ IsPrint
  /\ Waited
  /\ Len(log) = AdIndex + 2
  /\ log[AdIndex + 1].timeout = 60
  /\ log[AdIndex + 2].timeout < 60
  /\ log[AdIndex].at > 0

\* C5 as stated: a session that wrote 0xAD and ended without reading a
\* 0xAA notification (nor a malformed one) ended in TimedOut.
C5_EndsOnlyTimedOut ==
  (IsPrint /\ pc = "done" /\ deadline > 0 /\ outcome.ret = "err"
     /\ outcome.at # "parse_completion")
    => outcome.at = "timeout"

\* C5, amended: with every Transport call returning and the clock advancing,
\* every operation ends; a print session found at the top of its wait loop
\* with no time left ends in TimedOut; and a session that wrote 0xAD and
\* failed did so by timing out, by a read that returned an error, or by a
\* notification that did not parse.
C5_SessionEnds ==
  /\ (active # {}) ~> (active = {})
  /\ (pc = "wait" /\ now >= deadline) ~> (pc = "done" /\ outcome.at = "timeout")
  /\ []((IsPrint /\ pc = "done" /\ deadline > 0 /\ outcome.ret = "err")
          => outcome.at \in { "timeout", "read_notification", "parse_completion" })

C5_Witness ==
  /\ IsPrint
  /\ pc = "done"
  /\ deadline > 0
  /\ now > deadline
  /\ outcome.err = "timed out waiting for print complete"

\* C6: the Transport calls of a print session are, in order: one
\* write_control of the 0xA9 packet, one read_notification with a 2 second
\* timeout, the write_data calls (only after an accepted size reply), one
\* write_control of the 0xAD packet with payload [0x00] once every chunk is
\* written, then read_notification calls only; each call follows a
\* successful one.
C6_CallOrder ==
  IsPrint =>
    \A i \in 1..Len(log) :
      /\ i > 1 => log[i - 1].ok
      /\ i = 1 =>
           /\ log[i].call = "write_control"
           /\ Len(log[i].data) = 12
           /\ SubSeq(log[i].data, 1, 6) = << 34, 33, 169, 0, 4, 0 >>
      /\ i = 2 => (log[i].call = "read_notification" /\ log[i].timeout = 2)
      /\ i > 2 => ~BadSizeReply(log[2].reply)
      /\ (i > 2 /\ i < AdIndex) => log[i].call = "write_data"
      /\ i = AdIndex =>
           /\ log[i].call = "write_control"
           /\ log[i].data = << 34, 33, 173, 0, 1, 0, 0, 0, 255 >>
      /\ i > AdIndex => log[i].call = "read_notification"

C6_Witness ==
  /\ IsPrint
  /\ Len(chunks) >= 2
  /\ Len(log) = AdIndex + 2

\* the bytes given to write_data in calls 3 .. i-1, in call order
WrittenBefore(i) == Concat([j \in 1..(i - 3) |-> log[j + 2].data])

\* the packed bitmap of the job: print_text packs the rotated buffer
JobBitmap ==
  pack_1bpp_pixels(IF op = "print_text"
                   THEN rotate_mirror_pixels(args.pixels, args.width, args.height)
                   ELSE args.pixels,
                   args.width, args.height).val

\* C7: when a print session writes 0xAD, the data of its write_data calls,
\* concatenated in call order, is the packed bitmap of the job, and with a
\* chunk size above 0 (the override if given, else the configured one) no
\* write_data call carries more bytes than that.
C7_ChunksAreTheBitmap ==
  (IsPrint /\ Len(log) >= 3 /\ LastCall.call = "write_control") =>
    LET i == Len(log)
    IN  /\ WrittenBefore(i) = JobBitmap
        /\ \A j \in 3..(i - 1) :
              LET size == IF args.chunk_size = << >> THEN chunk_size
                          ELSE args.chunk_size[1]
              IN  /\ log[j].call = "write_data"
                  /\ size > 0 => Len(log[j].data) <= size

C7_Witness ==
  /\ op = "print_text"
  /\ chunk_size = 180
  /\ Len(log) = 5
  /\ log[5].call = "write_control"
  /\ Len(log[3].data) = 180
  /\ Len(log[4].data) = 12

\* C8 as stated: a print session that announced its size ended as Done,
\* Rejected, TimedOut or TransportError.
C8_FourOutcomes ==
  (IsPrint /\ pc = "done" /\ Len(log) >= 1) =>
    outcome.at \in { "complete", "parse_ack", "rejected", "timeout",
                     "write_control", "write_data", "read_notification" }

\* C8, amended: a print session that announced its size ends in exactly one
\* of Done, Rejected (only from the size reply), TimedOut (only from the
\* completion wait), TransportError (the failed call being the last), or the
\* parse error of a notification read in the completion wait; a notification
\* read in the wait that parses ends the session only as Done.
C8_FiveOutcomes ==
  (IsPrint /\ pc = "done" /\ Len(log) >= 1) =>
    /\ \/ /\ outcome.at = "complete"
          /\ outcome.ret = "ok"
          /\ Waited
       \/ /\ outcome.at \in { "parse_ack", "rejected" }
          /\ outcome.ret = "err"
          /\ Len(log) = 2 /\ log[2].ok /\ BadSizeReply(log[2].reply)
       \/ /\ outcome.at = "timeout"
          /\ outcome.ret = "err"
          /\ outcome.err = "timed out waiting for print complete"
          /\ Waited
       \/ /\ outcome.at \in { "write_control", "write_data", "read_notification" }
          /\ outcome.ret = "err"
          /\ outcome.at = LastCall.call
          /\ ~LastCall.ok
       \/ /\ outcome.at = "parse_completion"
          /\ outcome.ret = "err"
          /\ Waited /\ Len(log) > AdIndex
          /\ LastCall.ok /\ ~parse_notification(LastCall.reply).ok
          /\ outcome.err = parse_notification(LastCall.reply).err
    /\ (Waited /\ Len(log) > AdIndex /\ Parsed(LastCall) /\ outcome.at # "timeout")
         => outcome.ret = "ok"

C8_Witness ==
  /\ IsPrint
  /\ pc = "done"
  /\ Waited
  /\ Len(log) = AdIndex + 2
  /\ outcome.at = "parse_completion"
  /\ outcome.err = "not enough bytes for claimed payload length"

\* C9: at most one caller is inside an operation of the printer; an
\* operation starts only when none is running, and every Transport call is
\* made with exactly one caller inside, who stays the only one.
C9_SingleFlight ==
  /\ [](/\ Cardinality(active) <= 1
        /\ (active = {}) <=> (pc \in { "idle", "done" }))
  /\ [][/\ (sessions' # sessions) => (active = {} /\ pc \in { "idle", "done" })
        /\ (sessions' = sessions /\ log' # log)
             => (Cardinality(active) = 1 /\ active' \subseteq active)]_vars

C9_Witness ==
  /\ sessions = 2
  /\ active = { 2 }
  /\ pc = "wait"
  /\ Len(log) = AdIndex + 1

\* C10: get_status makes one write_control of the 0xA1 packet with payload
\* [0x00], then at most one read_notification with the caller's timeout, and
\* nothing else; a failed write, a failed read or a reply that does not
\* parse is returned as an error, and otherwise the result is
\* parse_printer_status of the reply's payload.
C10_StatusExchange ==
  op = "get_status" =>
    /\ Len(log) <= 2
    /\ pc = "status_request" => Len(log) = 0
    /\ pc = "status_reply" => (Len(log) = 1 /\ log[1].ok)
    /\ Len(log) >= 1 =>
         /\ log[1].call = "write_control"
         /\ log[1].data = << 34, 33, 161, 0, 1, 0, 0, 0, 255 >>
    /\ Len(log) = 2 =>
         /\ log[1].ok
         /\ log[2].call = "read_notification"
         /\ log[2].timeout = args.timeout
    /\ pc = "done" =>
         /\ Len(log) >= 1
         /\ ~LastCall.ok => (outcome.ret = "err" /\ outcome.err = LastCall.err)
         /\ LastCall.ok =>
              /\ Len(log) = 2
              /\ LET notif == parse_notification(log[2].reply)
                 IN  IF notif.ok
                     THEN /\ outcome.ret = "ok"
                          /\ outcome.status = << parse_printer_status(notif.payload) >>
                     ELSE /\ outcome.ret = "err"
                          /\ outcome.err = notif.err

C10_Witness ==
  /\ op = "get_status"
  /\ pc = "done"
  /\ args.timeout = 1
  /\ outcome.ret = "ok"
  /\ outcome.status[1].state = << "Error", 9 >>
  /\ outcome.status[1].battery_percent = << 200 >>

(***************************************************************************)
(* The codec called on its own: op is the function, args its arguments,    *)
(* outcome its value.  The printer is not involved.                        *)
(***************************************************************************)
\* n bytes that differ from their neighbours
Filler(n) == [i \in 1..n |-> (17 * i + 5) % 256]

\* six header bytes: preamble right or wrong, claimed length small or huge
Headers ==
  { << b0, b1, cmd, unknown, lo, hi >> :
      b0 \in { 34, 35 }, b1 \in { 33, 34 }, cmd \in { CmdSize, CmdComplete },
      unknown \in { 0, 7 }, lo \in 0..MaxPayload, hi \in { 0, 1 } }

\* every prefix of a header followed by MaxPayload + 2 bytes
RawNotifications ==
  { SubSeq(h \o Filler(MaxPayload + 2), 1, n) :
      h \in Headers, n \in 0..(8 + MaxPayload) }

ParseCalls ==
  { [op |-> "parse_notification", args |-> [data |-> d]] : d \in RawNotifications }

Payloads == { Filler(n) : n \in 0..MaxPayload }

\* what may follow the payload: nothing, its checksum, or another byte
Trailers(p) ==
  { None, Some(crc8(p)), Some((crc8(p) + 1) % 256), Some(255 - crc8(p)) }

\* a header and a payload as the printer frames them, then a trailer
FramedCalls ==
  { [op |-> "parse_notification",
     args |-> [data |-> << 34, 33, cmd, 0, Len(p), 0 >> \o p \o t,
               cmd |-> cmd, payload |-> p, trailer |-> t]] :
      cmd \in { CmdSize, CmdComplete }, p \in Payloads,
      t \in UNION { Trailers(q) : q \in Payloads } }

\* payloads to frame: every string of at most MaxPayload bytes over a few
\* byte values, and the ASCII digits "123456789"
BuildPayloads ==
  UNION { [1..n -> { 0, 1, 128, 255 }] : n \in 0..MaxPayload }
    \cup { << 49, 50, 51, 52, 53, 54, 55, 56, 57 >> }

BuildCalls ==
  { [op |-> "build_control_packet", args |-> [command_id |-> c, payload |-> p]] :
      c \in { 0, CmdStatus, CmdSize, CmdEnd, 255 }, p \in BuildPayloads }

\* n pixels of three values, 0 (black) among them, in a pattern set by seed
Shades(n, seed) == [i \in 1..n |-> << 0, 255, 1 >>[((i * seed) % 3) + 1]]

\* grids of 0..MaxWidth by 0..MaxHeight with a buffer one pixel short, exact,
\* or one pixel long; the 8 by 1 grid of alternating black and white; and
\* dimensions whose product does or does not fit a usize
PackCalls ==
  { [op |-> "pack_1bpp_pixels",
     args |-> [pixels |-> Shades(IF w * h + d < 0 THEN 0 ELSE w * h + d, seed),
               width |-> w, height |-> h]] :
      w \in 0..MaxWidth, h \in 0..MaxHeight, seed \in 1..2, d \in -1..1 }
    \cup { [op |-> "pack_1bpp_pixels",
           args |-> [pixels |-> << 0, 255, 0, 255, 0, 255, 0, 255 >>,
                     width |-> 8, height |-> 1]] }
    \cup { [op |-> "pack_1bpp_pixels",
           args |-> [pixels |-> Shades(MaxWidth, 1), width |-> w, height |-> 32768]] :
          w \in { 65535, 65536 } }

ChunkCalls ==
  { [op |-> "chunk_data", args |-> [data |-> Filler(len), chunk_size |-> n]] :
      len \in 0..MaxData, n \in 0..MaxChunk }

\* grids of 1..MaxWidth by 1..MaxHeight in a buffer exact or one pixel long
RotateCalls ==
  { [op |-> "rotate_mirror_pixels",
     args |-> [pixels |-> Filler(w * h + d), width |-> w, height |-> h]] :
      w \in 1..MaxWidth, h \in 1..MaxHeight, d \in 0..1 }

\* the first len bytes of a status payload: status flag at offset 6,
\* battery at 9, temperature 30 at 10, overall flag at 12, error code 9 at 13
StatusBytes(len, status_flag, battery, overall_flag) ==
  [i \in 1..len |->
     CASE i = 7 -> status_flag
       [] i = 10 -> battery
       [] i = 11 -> 30
       [] i = 13 -> overall_flag
       [] i = 14 -> 9
       [] OTHER -> 100 + i]

StatusCalls ==
  { [op |-> "parse_printer_status",
     args |-> [payload |-> StatusBytes(len, status_flag, battery, overall_flag)]] :
      len \in 0..MaxStatusLen, status_flag \in 0..2, battery \in { 0, 77, 100, 200 },
      overall_flag \in { 0, 1, 255 } }

CodecCalls ==
  ParseCalls \cup FramedCalls \cup BuildCalls \cup PackCalls \cup ChunkCalls
    \cup RotateCalls \cup StatusCalls

\* a caller about to call one function of protocol.rs
InitCodec ==
  /\ active = {}
  /\ sessions = 0
  /\ chunk_size = DefaultChunkSize
  /\ \E call \in CodecCalls : op = call.op /\ args = call.args
  /\ pc = "call"
  /\ packed = << >>
  /\ chunks = << >>
  /\ sent = 0
  /\ deadline = 0
  /\ now = 0
  /\ log = << >>
  /\ outcome = NoOutcome

\* the function returns v
Returns(v) ==
  /\ pc = "call"
  /\ pc' = "done"
  /\ outcome' = v
  /\ UNCHANGED << active, sessions, chunk_size, op, args, packed, chunks, sent,
                  deadline, now, log >>

ParseNotificationCall ==
  /\ op = "parse_notification"
  /\ Returns(parse_notification(args.data))

BuildControlPacketCall ==
  /\ op = "build_control_packet"
  /\ Returns(build_control_packet(args.command_id, args.payload))

\* the packet just built is handed to parse_notification
ParseBuilt ==
  /\ op = "build_control_packet"
  /\ pc = "done"
  /\ op' = "parse_notification"
  /\ args' = [data |-> outcome, built |-> args]
  /\ pc' = "call"
  /\ outcome' = NoOutcome
  /\ UNCHANGED << active, sessions, chunk_size, packed, chunks, sent, deadline,
                  now, log >>

Pack1bppPixelsCall ==
  /\ op = "pack_1bpp_pixels"
  /\ Returns(pack_1bpp_pixels(args.pixels, args.width, args.height))

ChunkDataCall ==
  /\ op = "chunk_data"
  /\ Returns(chunk_data(args.data, args.chunk_size))

RotateMirrorPixelsCall ==
  /\ op = "rotate_mirror_pixels"
  /\ Returns(rotate_mirror_pixels(args.pixels, args.width, args.height))

\* the buffer just returned is rotated again, with the same dimensions
RotateAgain ==
  /\ op = "rotate_mirror_pixels"
  /\ pc = "done"
  /\ "first" \notin DOMAIN args
  /\ args' = [pixels |-> outcome, width |-> args.width, height |-> args.height,
              first |-> args.pixels]
  /\ pc' = "call"
  /\ outcome' = NoOutcome
  /\ UNCHANGED << active, sessions, chunk_size, op, packed, chunks, sent, deadline,
                  now, log >>

ParsePrinterStatusCall ==
  /\ op = "parse_printer_status"
  /\ Returns(parse_printer_status(args.payload))

NextCodec ==
  \/ ParseNotificationCall
  \/ ParsePrinterStatusCall
  \/ RotateMirrorPixelsCall
  \/ RotateAgain
  \/ ChunkDataCall
  \/ Pack1bppPixelsCall
  \/ BuildControlPacketCall
  \/ ParseBuilt

SpecCodec == InitCodec /\ [][NextCodec]_vars

\* C11: parse_notification fails with "packet too short" exactly when the
\* input has fewer than 7 bytes; otherwise with "bad preamble" exactly when
\* the first two bytes are not 0x22 0x21; otherwise, L being byte 4 plus 256
\* times byte 5, with the truncated-payload error exactly when the input has
\* fewer than 6+L bytes; otherwise it succeeds with command_id byte 2,
\* unknown byte 3 and payload bytes 6..6+L.
C11_ParseChecksInOrder ==
  (op = "parse_notification" /\ pc = "done") =>
    LET d == args.data
        short == Len(d) < 7
        preamble == ~short /\ (d[1] # 34 \/ d[2] # 33)
        L == d[5] + 256 * d[6]
        truncated == ~short /\ ~preamble /\ Len(d) < 6 + L
    IN  /\ short <=> (~outcome.ok /\ outcome.err = "packet too short")
        /\ preamble <=> (~outcome.ok /\ outcome.err = "bad preamble")
        /\ truncated <=>
             (~outcome.ok /\ outcome.err = "not enough bytes for claimed payload length")
        /\ (~short /\ ~preamble /\ ~truncated) <=> outcome.ok
        /\ outcome.ok =>
             /\ outcome.command_id = d[3]
             /\ outcome.unknown = d[4]
             /\ Len(outcome.payload) = L
             /\ \A i \in 1..L : outcome.payload[i] = d[6 + i]

\* a bad preamble in front of a claimed length the input does not hold
C11_Witness ==
  /\ op = "parse_notification"
  /\ pc = "done"
  /\ Len(args.data) = 7
  /\ args.data[1] = 35
  /\ args.data[5] = 2
  /\ outcome.err = "bad preamble"

IsFramed == op = "parse_notification" /\ "trailer" \in DOMAIN args

\* C12 as stated: a header and payload followed by the right checksum byte,
\* by a wrong one, or by none parse to the same command_id and payload, the
\* crc field being the byte when there is one.
C12_ChecksumNeverMatters ==
  (IsFramed /\ pc = "done") =>
    /\ outcome.ok
    /\ outcome.command_id = args.cmd
    /\ outcome.payload = args.payload
    /\ outcome.crc = args.trailer

\* C12, amended: the same, except that an empty payload with no checksum
\* byte is six bytes and fails with "packet too short".
C12_ChecksumNotVerified ==
  (IsFramed /\ pc = "done") =>
    IF args.payload = << >> /\ args.trailer = None
    THEN ~outcome.ok /\ outcome.err = "packet too short"
    ELSE /\ outcome.ok
         /\ outcome.command_id = args.cmd
         /\ outcome.payload = args.payload
         /\ outcome.crc = args.trailer

\* a wrong checksum byte, captured
C12_Witness ==
  /\ IsFramed
  /\ pc = "done"
  /\ Len(args.payload) = MaxPayload
  /\ args.trailer # None
  /\ args.trailer # Some(crc8(args.payload))
  /\ outcome.ok
  /\ outcome.crc = args.trailer

\* C13: for every command id and payload, parse_notification of the packet
\* build_control_packet made succeeds with that command id and a payload of
\* the same length: the same bytes, unknown 0 and crc Some(crc8(payload)).
C13_BuildThenParse ==
  (op = "parse_notification" /\ "built" \in DOMAIN args /\ pc = "done") =>
    /\ outcome.ok
    /\ outcome.command_id = args.built.command_id
    /\ Len(outcome.payload) = Len(args.built.payload)
    /\ outcome.payload = args.built.payload
    /\ outcome.unknown = 0
    /\ outcome.crc = Some(crc8(args.built.payload))

C13_Witness ==
  /\ op = "parse_notification"
  /\ "built" \in DOMAIN args
  /\ pc = "done"
  /\ args.built.command_id = CmdSize
  /\ args.built.payload = << 255, 1 >>
  /\ outcome.payload = << 255, 1 >>

\* the bits of the payload, most significant bit of each byte first, then
\* eight 0 bits: the payload as a polynomial over GF(2), times x^8
MessageBits(p) ==
  [k \in 1..(8 * Len(p) + 8) |->
     IF k <= 8 * Len(p)
     THEN (p[(k - 1) \div 8 + 1] \div (2 ^ (7 - ((k - 1) % 8)))) % 2
     ELSE 0]

\* x^8 + x^2 + x + 1, the polynomial 0x07 with its leading term
PolyBits == << 1, 0, 0, 0, 0, 0, 1, 1, 1 >>

RECURSIVE DivideFrom(_, _)
\* long division by PolyBits from bit k on; what is left is the remainder
DivideFrom(bits, k) ==
  IF k > Len(bits) - 8 THEN bits
  ELSE DivideFrom(IF bits[k] = 1
                  THEN [j \in 1..Len(bits) |->
                          IF j >= k /\ j <= k + 8
                          THEN (bits[j] + PolyBits[j - k + 1]) % 2
                          ELSE bits[j]]
                  ELSE bits,
                  k + 1)

\* CRC-8, polynomial 0x07, initial value 0, no final XOR: the remainder of
\* the division, read as a byte
Crc8Remainder(p) ==
  LET rem == DivideFrom(MessageBits(p), 1)
      n == 8 * Len(p)
  IN  128 * rem[n + 1] + 64 * rem[n + 2] + 32 * rem[n + 3] + 16 * rem[n + 4]
        + 8 * rem[n + 5] + 4 * rem[n + 6] + 2 * rem[n + 7] + rem[n + 8]

\* C14: build_control_packet(c, p) with n = Len(p) is the n+8 bytes 0x22,
\* 0x21, c, 0, n mod 256, n div 256, the payload, K, 0xFF, K being the CRC-8
\* (polynomial 0x07, initial value 0, most significant bit first, no final
\* XOR) of the payload alone; K is 0 for the empty payload.
C14_PacketLayout ==
  (op = "build_control_packet" /\ pc = "done") =>
    LET n == Len(args.payload)
    IN  /\ Len(outcome) = n + 8
        /\ SubSeq(outcome, 1, 6) =
             << 34, 33, args.command_id, 0, n % 256, n \div 256 >>
        /\ SubSeq(outcome, 7, 6 + n) = args.payload
        /\ outcome[n + 7] = Crc8Remainder(args.payload)
        /\ n = 0 => outcome[n + 7] = 0
        /\ outcome[n + 8] = 255

\* the check value of this CRC-8: 0xF4 for the digits "123456789"
C14_Witness ==
  /\ op = "build_control_packet"
  /\ pc = "done"
  /\ args.payload = << 49, 50, 51, 52, 53, 54, 55, 56, 57 >>
  /\ Len(outcome) = 17
  /\ outcome[16] = 244

\* the number of bytes a row of w pixels takes: w/8 rounded up
RowBytes(w) == (w \div 8) + (IF w % 8 = 0 THEN 0 ELSE 1)

\* C15: for width, height >= 1 and at least width*height pixels,
\* pack_1bpp_pixels returns ceil(width/8)*height bytes in which bit k of
\* byte g of row r is 1 exactly when 8g+k < width and the pixel at row r,
\* column 8g+k is 0; every other bit is 0 and no byte holds pixels of two
\* rows.
C15_PackedBits ==
  (/\ op = "pack_1bpp_pixels" /\ pc = "done"
   /\ args.width \in 1..MaxWidth /\ args.height \in 1..MaxHeight
   /\ Len(args.pixels) >= args.width * args.height) =>
    /\ outcome.ok
    /\ Len(outcome.val) = RowBytes(args.width) * args.height
    /\ \A r \in 0..(args.height - 1), g \in 0..(RowBytes(args.width) - 1), k \in 0..7 :
         /\ outcome.val[r * RowBytes(args.width) + g + 1] \in Byte
         /\ BitOf(outcome.val[r * RowBytes(args.width) + g + 1], k) = 1
              <=> /\ 8 * g + k < args.width
                  /\ args.pixels[r * args.width + 8 * g + k + 1] = 0

\* width 8, height 1, pixels [0,255,0,255,0,255,0,255] give 0b01010101
C15_Witness ==
  /\ op = "pack_1bpp_pixels"
  /\ pc = "done"
  /\ args.width = 8
  /\ args.height = 1
  /\ args.pixels = << 0, 255, 0, 255, 0, 255, 0, 255 >>
  /\ outcome.ok
  /\ outcome.val = << 85 >>

\* C16: pack_1bpp_pixels returns an error and no output, the first of:
\* the dimensions error when width or height is 0; the overflow error when
\* width*height does not fit a usize; the not-enough-pixels error when the
\* buffer holds fewer than width*height pixels.  Otherwise it succeeds, a
\* longer buffer included.
C16_PackErrorsInOrder ==
  (op = "pack_1bpp_pixels" /\ pc = "done") =>
    LET w == args.width
        h == args.height
        zero == w = 0 \/ h = 0
        \* w * h > UsizeMax, without forming the product
        overflow == ~zero /\ w > UsizeMax \div h
        short == ~zero /\ ~overflow /\ Len(args.pixels) < w * h
    IN  /\ zero <=> (~outcome.ok /\ outcome.err = "width/height must be > 0")
        /\ overflow <=> (~outcome.ok /\ outcome.err = "width*height overflow")
        /\ short <=> (~outcome.ok /\ outcome.err = "not enough pixels")
        /\ (~zero /\ ~overflow /\ ~short) <=> outcome.ok
        /\ outcome.ok <=> "val" \in DOMAIN outcome

\* a buffer one pixel longer than the grid is packed
C16_Witness ==
  /\ op = "pack_1bpp_pixels"
  /\ pc = "done"
  /\ args.width = MaxWidth
  /\ args.height = MaxHeight
  /\ Len(args.pixels) = MaxWidth * MaxHeight + 1
  /\ outcome.ok

\* C17: chunk_data(data, 0) is the one chunk data; chunk_data(data, n) with
\* n > 0 is ceil(len/n) chunks, each of n bytes except possibly the last,
\* which has 1 to n bytes; the chunks concatenated in order are data.
C17_ChunksPartitionData ==
  (op = "chunk_data" /\ pc = "done") =>
    LET len == Len(args.data)
        n == args.chunk_size
    IN  /\ n = 0 => outcome = << args.data >>
        /\ n > 0 =>
             /\ Len(outcome) = (len \div n) + (IF len % n = 0 THEN 0 ELSE 1)
             /\ \A i \in 1..(Len(outcome) - 1) : Len(outcome[i]) = n
             /\ Len(outcome) > 0 => Len(outcome[Len(outcome)]) \in 1..n
        /\ Concat(outcome) = args.data

C17_Witness ==
  /\ op = "chunk_data"
  /\ pc = "done"
  /\ Len(args.data) = 7
  /\ args.chunk_size = 3
  /\ Len(outcome) = 3
  /\ Len(outcome[3]) = 1

\* C18 as stated: for width, height >= 1 and a buffer of at least
\* width*height pixels, rotate_mirror_pixels applied twice gives the buffer
\* back, and one application moves the pixel at (row, col) to
\* (height-1-row, width-1-col).
C18_RotateTwiceIsIdentity ==
  (op = "rotate_mirror_pixels" /\ pc = "done") =>
    /\ \A row \in 0..(args.height - 1), col \in 0..(args.width - 1) :
         outcome[(args.height - 1 - row) * args.width + (args.width - 1 - col) + 1]
           = args.pixels[row * args.width + col + 1]
    /\ "first" \in DOMAIN args => outcome = args.first

\* a 1 by 2 grid in a buffer of 3 pixels: the third comes back as 0
C18_Witness ==
  /\ op = "rotate_mirror_pixels"
  /\ pc = "done"
  /\ "first" \in DOMAIN args
  /\ args.width = 1
  /\ args.height = 2
  /\ args.first = << 22, 39, 56 >>
  /\ outcome = << 22, 39, 0 >>

\* C19: for a payload shorter than 13 bytes parse_printer_status gives no
\* battery, no temperature and state Unknown; otherwise battery
\* Some(payload[9]) and temperature Some(payload[10]) in every branch, and
\* the state Standby / Printing / Unknown for payload[6] = 0 / 1 / other
\* when payload[12] = 0, Error(payload[13]) when payload[12] # 0 and there
\* are at least 14 bytes, Unknown when payload[12] # 0 and there are 13.
C19_StatusDecoding ==
  (op = "parse_printer_status" /\ pc = "done") =>
    LET p == args.payload
        \* byte k of the payload, k counted from 0
        at(k) == p[k + 1]
    IN  IF Len(p) < 13
        THEN outcome = [battery_percent |-> None, temperature |-> None,
                        state |-> << "Unknown" >>]
        ELSE /\ outcome.battery_percent = Some(at(9))
             /\ outcome.temperature = Some(at(10))
             /\ (at(12) = 0 /\ at(6) = 0) => outcome.state = << "Standby" >>
             /\ (at(12) = 0 /\ at(6) = 1) => outcome.state = << "Printing" >>
             /\ (at(12) = 0 /\ at(6) \notin { 0, 1 }) => outcome.state = << "Unknown" >>
             /\ (at(12) # 0 /\ Len(p) >= 14) => outcome.state = << "Error", at(13) >>
             /\ (at(12) # 0 /\ Len(p) = 13) => outcome.state = << "Unknown" >>

\* 13 bytes with the overall flag set: Unknown, battery and temperature read
C19_Witness ==
  /\ op = "parse_printer_status"
  /\ pc = "done"
  /\ Len(args.payload) = 13
  /\ args.payload[13] = 255
  /\ outcome.state = << "Unknown" >>
  /\ outcome.battery_percent = << 77 >>
  /\ outcome.temperature = << 30 >>

\* C20 as stated: a battery_percent returned by parse_printer_status, when
\* present, is in 0..100.
C20_BatteryInRange ==
  (op = "parse_printer_status" /\ pc = "done" /\ outcome.battery_percent # None) =>
    outcome.battery_percent[1] \in 0..100

\* byte 9 of the payload is 200, and so is the battery_percent
C20_Witness ==
  /\ op = "parse_printer_status"
  /\ pc = "done"
  /\ Len(args.payload) = 13
  /\ args.payload[10] = 200
  /\ outcome.battery_percent = << 200 >>

(***************************************************************************)
(* Dithering: dithering.rs and the Threshold arm of print_image_from_path. *)
(* op is the strategy, args the image it is given, outcome the raw buffer  *)
(* of the image afterwards.                                                *)
(***************************************************************************)
\* pixel[0] = if pixel[0] > 127 { 255 } else { 0 }
threshold(pixel) == IF pixel > 127 THEN 255 ELSE 0

BAYER_MATRIX ==
  << << 0, 8, 2, 10 >>, << 12, 4, 14, 6 >>, << 3, 11, 1, 9 >>, << 15, 7, 13, 5 >> >>

FACTOR == 16

\* the body of bayer_dither's loops with >= for >
bayer_pixel_inclusive(pixel, x, y) ==
  LET cell == BAYER_MATRIX[(y % 4) + 1][(x % 4) + 1]
      scaled_intensity == pixel \div FACTOR
  IN  IF scaled_intensity >= cell THEN 255 ELSE 0

\* the body of bayer_dither's loops, for the pixel at column x of row y
bayer_pixel(pixel, x, y) ==
  LET cell == BAYER_MATRIX[(y % 4) + 1][(x % 4) + 1]
      scaled_intensity == pixel \div FACTOR
  IN  IF scaled_intensity > cell THEN 255 ELSE 0

bayer_dither(img) ==
  [i \in 1..(img.width * img.height) |->
     bayer_pixel(img.raw[i], (i - 1) % img.width, (i - 1) \div img.width)]

\* the six neighbours of update_pixel with the first one behind the pixel
atkinson_targets_backward ==
  << << -1, 0 >>, << 2, 0 >>, << -1, 1 >>, << 0, 1 >>, << 1, 1 >>, << 0, 2 >> >>

\* the (dx, dy) of the six update_pixel calls, in call order
atkinson_targets ==
  << << 1, 0 >>, << 2, 0 >>, << -1, 1 >>, << 0, 1 >>, << 1, 1 >>, << 0, 2 >> >>

\* (error as f32 * factor) as i16 with factor 1/8: exact in f32, and the
\* cast drops the fraction
scaled_error(error) ==
  IF error >= 0 THEN error \div 8 ELSE -((-error) \div 8)

\* new_val.clamp(0, 255)
clamp(v) == IF v < 0 THEN 0 ELSE IF v > 255 THEN 255 ELSE v

\* the closure update_pixel: raw after the update of (x, y), which is
\* skipped outside the image
update_pixel(img, x, y) ==
  IF x >= 0 /\ x < img.width /\ y >= 0 /\ y < img.height
  THEN [img.raw EXCEPT ![y * img.width + x + 1] = clamp(@ + scaled_error(img.error))]
  ELSE img.raw

\* a width by height image whose pixels all have value v
Uniform(width, height, v) ==
  [width |-> width, height |-> height, raw |-> [i \in 1..(width * height) |-> v]]

\* a width by height image of differing values
Graded(width, height) ==
  [width |-> width, height |-> height, raw |-> Filler(width * height)]

\* one pixel of every value, and an all-white image
ThresholdCalls ==
  { [op |-> "threshold", args |-> Uniform(1, 1, v)] : v \in Byte }
    \cup { [op |-> "threshold", args |-> Uniform(MaxSide, MaxSide, 255)] }

\* all-white, all-black, all-gray and graded images of every size
BayerCalls ==
  { [op |-> "bayer_dither", args |-> Uniform(w, h, v)] :
      w \in 1..MaxSide, h \in 1..MaxSide, v \in { 0, 127, 255 } }
    \cup { [op |-> "bayer_dither", args |-> Graded(w, h)] :
             w \in 1..MaxSide, h \in 1..MaxSide }

\* pixel values around the cut and near both ends
Tones == << 0, 120, 127, 128, 250 >>

\* a width by height image of tones in a pattern set by seed
Toned(width, height, seed) ==
  [width |-> width, height |-> height,
   raw |-> [i \in 1..(width * height) |-> Tones[((i * seed + (i \div 2)) % 5) + 1]]]

\* atkinson_dither's frame on entry: the image, and the locals idx (the
\* pixel the loops are at), step (0 before the pixel is quantized, then the
\* number of the next update_pixel call) and error
Frame(img) ==
  [width |-> img.width, height |-> img.height, raw |-> img.raw, orig |-> img.raw,
   idx |-> 0, step |-> 0, error |-> 0]

\* every image of at most MaxToned pixels over Tones; mid-gray and
\* patterned images of every size up to MaxAtkinsonSide
AtkinsonCalls ==
  UNION { { [op |-> "atkinson_dither",
             args |-> Frame([width |-> d[1], height |-> d[2], raw |-> r])] :
              r \in [1..(d[1] * d[2]) -> { Tones[k] : k \in 1..5 }] } :
          d \in { e \in (1..MaxToned) \X (1..MaxToned) : e[1] * e[2] <= MaxToned } }
    \cup { [op |-> "atkinson_dither", args |-> Frame(Uniform(w, h, 127))] :
             w \in 1..MaxAtkinsonSide, h \in 1..MaxAtkinsonSide }
    \cup { [op |-> "atkinson_dither", args |-> Frame(Toned(w, h, seed))] :
             w \in 1..MaxAtkinsonSide, h \in 1..MaxAtkinsonSide, seed \in 1..4 }

DitherCalls == ThresholdCalls \cup BayerCalls \cup AtkinsonCalls

\* a caller about to dither an image
InitDither ==
  /\ active = {}
  /\ sessions = 0
  /\ chunk_size = DefaultChunkSize
  /\ \E call \in DitherCalls : op = call.op /\ args = call.args
  /\ pc = "call"
  /\ packed = << >>
  /\ chunks = << >>
  /\ sent = 0
  /\ deadline = 0
  /\ now = 0
  /\ log = << >>
  /\ outcome = NoOutcome

ThresholdCall ==
  /\ op = "threshold"
  /\ Returns([i \in 1..Len(args.raw) |-> threshold(args.raw[i])])

BayerDitherCall ==
  /\ op = "bayer_dither"
  /\ Returns(bayer_dither(args))

\* raw[idx] = new_pixel, and the error of that
AtkinsonQuantize ==
  /\ op = "atkinson_dither"
  /\ pc = "call"
  /\ args.step = 0
  /\ args.idx < args.width * args.height
  /\ LET old_pixel == args.raw[args.idx + 1]
         new_pixel == IF old_pixel > 127 THEN 255 ELSE 0
     IN  args' = [args EXCEPT !.raw[args.idx + 1] = new_pixel,
                              !.error = old_pixel - new_pixel,
                              !.step = 1]
  /\ UNCHANGED << active, sessions, chunk_size, op, pc, packed, chunks, sent,
                  deadline, now, log, outcome >>

\* the next of the six update_pixel calls; after the sixth the loops move on
AtkinsonUpdate ==
  /\ op = "atkinson_dither"
  /\ pc = "call"
  /\ args.step \in 1..6
  /\ LET x == args.idx % args.width
         y == args.idx \div args.width
         target == atkinson_targets[args.step]
     IN  args' = [args EXCEPT !.raw = update_pixel(args, x + target[1], y + target[2]),
                              !.step = IF args.step = 6 THEN 0 ELSE args.step + 1,
                              !.idx = IF args.step = 6 THEN args.idx + 1 ELSE args.idx]
  /\ UNCHANGED << active, sessions, chunk_size, op, pc, packed, chunks, sent,
                  deadline, now, log, outcome >>

\* both loops are over: the image is left as it is
AtkinsonReturn ==
  /\ op = "atkinson_dither"
  /\ args.step = 0
  /\ args.idx = args.width * args.height
  /\ Returns(args.raw)

NextDither ==
  \/ AtkinsonQuantize
  \/ AtkinsonUpdate
  \/ AtkinsonReturn
  \/ ThresholdCall
  \/ BayerDitherCall

SpecDither == InitDither /\ [][NextDither]_vars

\* C21 as stated: Threshold makes every pixel of value 127 or more white
\* (255) and every pixel below 127 black (0); an all-white buffer is left
\* unchanged.
C21_ThresholdCutInclusive ==
  (op = "threshold" /\ pc = "done") =>
    /\ \A i \in 1..Len(args.raw) :
         outcome[i] = IF args.raw[i] >= 127 THEN 255 ELSE 0
    /\ (\A i \in 1..Len(args.raw) : args.raw[i] = 255) => outcome = args.raw

\* a pixel of value 127 comes out black
C21_Witness ==
  /\ op = "threshold"
  /\ pc = "done"
  /\ args.raw = << 127 >>
  /\ outcome = << 0 >>

\* C27 as stated: bayer_dither leaves a pure-white (255) pixel white and a
\* pure-black (0) pixel black at every position.
C27_BayerKeepsWhiteAndBlack ==
  (op = "bayer_dither" /\ pc = "done") =>
    \A i \in 1..Len(args.raw) :
      /\ args.raw[i] = 255 => outcome[i] = 255
      /\ args.raw[i] = 0 => outcome[i] = 0

\* C27, amended: bayer_dither leaves a pure-black pixel black at every
\* position, and a pure-white pixel white at every position except those of
\* matrix cell 15 (y mod 4 = 3 and x mod 4 = 0), where it turns black.
C27_BayerWhiteExceptCell15 ==
  (op = "bayer_dither" /\ pc = "done") =>
    \A y \in 0..(args.height - 1), x \in 0..(args.width - 1) :
      LET i == y * args.width + x + 1
      IN  /\ args.raw[i] = 0 => outcome[i] = 0
          /\ args.raw[i] = 255 =>
               outcome[i] = IF y % 4 = 3 /\ x % 4 = 0 THEN 0 ELSE 255

\* an all-white 4 by 4 image comes back with one black pixel, at (0, 3)
C27_Witness ==
  /\ op = "bayer_dither"
  /\ pc = "done"
  /\ args = Uniform(4, 4, 255)
  /\ outcome[13] = 0
  /\ \A i \in (1..16) \ { 13 } : outcome[i] = 255

\* the pixels atkinson_dither has quantized so far
Quantized ==
  { i \in 1..(args.width * args.height) :
      i <= args.idx \/ (i = args.idx + 1 /\ args.step >= 1) }

\* C22: while atkinson_dither runs every pixel stays within 0..255 after
\* every update, a pixel already quantized is 0 or 255 and is never written
\* again, and on return every pixel is 0 or 255, for every image size.
C22_AtkinsonQuantizesOnce ==
  /\ [](op = "atkinson_dither" =>
          /\ \A i \in 1..Len(args.raw) : args.raw[i] \in 0..255
          /\ \A i \in Quantized : args.raw[i] \in { 0, 255 }
          /\ pc = "done" =>
               /\ outcome = args.raw
               /\ \A i \in 1..Len(outcome) : outcome[i] \in { 0, 255 })
  /\ [][op = "atkinson_dither" =>
          \A i \in Quantized : args'.raw[i] = args.raw[i]]_vars

\* a 3 by 3 mid-gray image: the error pushed forward turns pixels white
C22_Witness ==
  /\ op = "atkinson_dither"
  /\ pc = "done"
  /\ args.width = 3
  /\ args.height = 3
  /\ \A i \in 1..9 : args.orig[i] = 127
  /\ outcome[1] = 0
  /\ outcome[2] = 255
  /\ \A i \in 1..9 : outcome[i] \in { 0, 255 }

\* C23: when pack_1bpp_pixels rejects the pixels of a print_image job, the
\* method has returned that error and no Transport call was made.
C23_PackErrorBeforeTransport ==
  op = "print_image" =>
    LET p == pack_1bpp_pixels(args.pixels, args.width, args.height)
    IN  ~p.ok => /\ pc = "done"
                 /\ outcome = Err(p.err, "pack")
                 /\ log = << >>
                 /\ packed = << >>

\* the job whose width * height overflows was refused
C23_Witness ==
  /\ op = "print_image"
  /\ pc = "done"
  /\ args.width = 65536
  /\ args.height = 32768
  /\ outcome = Err("width*height overflow", "pack")
  /\ log = << >>

\* C25: get_status returns a PrinterStatus only from a reply whose command
\* id is 0xA1.
C25_StatusOnlyFromStatusReply ==
  (op = "get_status" /\ pc = "done" /\ outcome.ret = "ok")
    => parse_notification(log[2].reply).command_id = CmdStatus

\* a print-complete notification was decoded as the printer's status
C25_Witness ==
  /\ op = "get_status"
  /\ pc = "done"
  /\ outcome.ret = "ok"
  /\ log[2].reply = << 34, 33, CmdComplete, 0, 1, 0, 1 >>
  /\ outcome.status = Some(parse_printer_status(<< 1 >>))

RECURSIVE BytesWritten(_)
\* the number of bytes given to write_data in the first i calls of the log
BytesWritten(i) ==
  IF i = 0 THEN 0
  ELSE BytesWritten(i - 1) + (IF log[i].call = "write_data" THEN Len(log[i].data) ELSE 0)

\* the line_count field of the 0xA9 packet the session wrote
AnnouncedLines == log[1].data[7] + 256 * log[1].data[8]

\* C24: in a print session that has announced its size, the bitmap to
\* stream holds exactly line_count * ceil(width/8) bytes, line_count being
\* the 16-bit value of the 0xA9 packet, and once every chunk is written
\* that many bytes were given to write_data.
C24_LineCountIsRowsStreamed ==
  (IsPrint /\ Len(log) >= 1) =>
    /\ Len(packed) = AnnouncedLines * RowBytes(args.width)
    /\ (pc = "stream" /\ sent = Len(chunks)) =>
         BytesWritten(Len(log)) = AnnouncedLines * RowBytes(args.width)

\* 65536 rows were streamed after a line_count of 0 was announced
C24_Witness ==
  /\ op = "print_image"
  /\ args.height = 65536
  /\ pc = "stream"
  /\ sent = Len(chunks)
  /\ AnnouncedLines = 0
  /\ log[3].call = "write_data"
  /\ log[3].ok
  /\ BytesWritten(Len(log)) = 65536

=============================================================================
